---- MODULE Spec2Model ----
(***************************************************************************)
(* Model of svd_workflow_api.py: the two helpers get_value_at_index and    *)
(* find_path, the start-up code that extends sys.path, and the fixed       *)
(* sequence of node operations run by main().                              *)
(*                                                                         *)
(* A path string is a sequence of tokens: the separator "/" or a file      *)
(* name.  "/a/b" is <<"/", "a", "/", "b">>, the root "/" is <<"/">>.        *)
(* A directory of the tree is a sequence of names, the root being <<>>.    *)
(***************************************************************************)
EXTENDS Integers, Sequences, FiniteSets, TLC

VARIABLES
    fs,        \* the directory tree: a set of entries [path, kind]
    cwd,       \* the process's working directory, as os.getcwd() reports it
    name,      \* find_path: the name argument
    path,      \* find_path: the path argument of the current call
    fp,        \* find_path: "running", "returned" or "raised"
    fpResult,  \* find_path: the value returned (None when absent)
    hops,      \* find_path: recursive calls made so far (parent moves)
    startDir,  \* find_path: the directory the outermost call started in
    obj,       \* get_value_at_index: the obj argument
    index,     \* get_value_at_index: the index argument
    gv,        \* get_value_at_index: "ready" or "done"
    res,       \* get_value_at_index: its outcome [exc, value, trace]
    sys_path,  \* sys.path, a list of path strings
    extra,     \* the file handed to load_extra_path_config (None: not called)
    pc,        \* the statement of the script or of main() to run next
    raisedIn,  \* the statement an unhandled exception came from ("": none)
    q,         \* main: the loop variable of "for q in range(1)"
    out,       \* main: the result of each node operation run so far
    invoked    \* main: the operations invoked so far, in order

findVars == <<fs, cwd, name, path, fp, fpResult, hops, startDir>>
getVars == <<obj, index, gv, res>>
runVars == <<sys_path, extra, pc, raisedIn>>
mainVars == <<q, out, invoked>>
vars == <<findVars, getVars, runVars, mainVars>>

\* ---------------------------------------------------------------- bounds
MaxEntries == 4
MaxLen == 2
MaxItems == 2

\* ------------------------------------------------------------ file names
COMFYUI == "ComfyUI"
EXTRA_MODEL_PATHS == "extra_model_paths.yaml"
Names == {"a", COMFYUI, EXTRA_MODEL_PATHS}
Kinds == {"dir", "file"}

SEP == "/"
None == <<"None">>

\* ------------------------------------------------------- directory trees
Dirs(T) == {<<>>} \cup {e.path : e \in {x \in T : x.kind = "dir"}}

Paths(T) == {e.path : e \in T}

Extend(T) ==
    UNION {
        UNION {
            { T \cup {[path |-> Append(d, n), kind |-> k]} : k \in Kinds }
            : n \in {m \in Names : Append(d, m) \notin Paths(T)} }
        : d \in Dirs(T) }

RECURSIVE TreesUpTo(_)
TreesUpTo(n) ==
    IF n = 0 THEN {{}}
    ELSE LET S == TreesUpTo(n - 1) IN S \cup UNION {Extend(T) : T \in S}

Trees == TreesUpTo(MaxEntries)

\* the path string of a directory, absolute and normalised
RECURSIVE PathString(_)
PathString(d) ==
    IF d = <<>> THEN <<SEP>>
    ELSE IF Len(d) = 1 THEN <<SEP, d[1]>>
    ELSE PathString(SubSeq(d, 1, Len(d) - 1)) \o <<SEP, d[Len(d)]>>

\* ------------------------------------------------------------ os module
getcwd == cwd

IsSep(t) == t = SEP

\* the directory or file a path string names (kernel path resolution)
Components(p) == SelectSeq(p, LAMBDA t : ~IsSep(t))

Resolve(p) ==
    IF p = <<>> THEN [ok |-> FALSE, at |-> <<>>]
    ELSE IF p[1] = SEP THEN [ok |-> TRUE, at |-> Components(p)]
    ELSE [ok |-> TRUE, at |-> Components(cwd) \o Components(p)]

\* os.path.exists in the place of os.path.isdir
exists(p) ==
    LET r == Resolve(p) IN r.ok /\ r.at \in Dirs(fs) \cup Paths(fs)

isdir(p) ==
    LET r == Resolve(p) IN r.ok /\ r.at \in Dirs(fs)

listdir(p) ==
    IF ~isdir(p) THEN [ok |-> FALSE, names |-> {}]
    ELSE LET d == Resolve(p).at
         IN [ok |-> TRUE,
             names |-> {n \in Names : Append(d, n) \in Paths(fs)}]

\* posixpath.dirname: everything up to the last separator, with trailing
\* separators stripped unless the head consists of separators only
LastSep(p) ==
    LET S == {i \in 1..Len(p) : p[i] = SEP}
    IN IF S = {} THEN 0 ELSE CHOOSE i \in S : \A j \in S : j <= i

rstrip(p) ==
    LET S == {i \in 1..Len(p) : p[i] # SEP}
    IN IF S = {} THEN <<>>
       ELSE SubSeq(p, 1, CHOOSE i \in S : \A j \in S : j <= i)

dirname(p) ==
    LET head == SubSeq(p, 1, LastSep(p))
    IN IF head # <<>> /\ (\E i \in 1..Len(head) : head[i] # SEP)
       THEN rstrip(head)
       ELSE head

\* a join that forgets the separator between the parts
joinNoSep(a, b) == a \o b

\* posixpath.join of two parts
join(a, b) ==
    IF b # <<>> /\ b[1] = SEP THEN b
    ELSE IF a = <<>> \/ a[Len(a)] = SEP THEN a \o b
    ELSE a \o <<SEP>> \o b

\* ------------------------------------------------------------ find_path
\* find_path with the root test made before the directory is listed
FindPathFrameRootFirst(n, p0) ==
    LET p == IF p0 = None THEN getcwd ELSE p0
        ls == listdir(p)
        parent_directory == dirname(p)
    IN IF parent_directory = p
       THEN [kind |-> "return", value |-> None]
       ELSE IF ~ls.ok THEN [kind |-> "raise", value |-> None]
       ELSE IF n \in ls.names
            THEN [kind |-> "return", value |-> join(p, <<n>>)]
       ELSE [kind |-> "recurse", value |-> parent_directory]

\* find_path without the root test
FindPathFrameNoRootTest(n, p0) ==
    LET p == IF p0 = None THEN getcwd ELSE p0
        ls == listdir(p)
    IN IF ~ls.ok THEN [kind |-> "raise", value |-> None]
       ELSE IF n \in ls.names
            THEN [kind |-> "return", value |-> join(p, <<n>>)]
       ELSE [kind |-> "recurse", value |-> dirname(p)]

\* One call of find_path up to its return or its recursive call.
FindPathFrame(n, p0) ==
    LET p == IF p0 = None THEN getcwd ELSE p0
        ls == listdir(p)
        parent_directory == dirname(p)
    IN IF ~ls.ok THEN [kind |-> "raise", value |-> None]
       ELSE IF n \in ls.names
            THEN [kind |-> "return", value |-> join(p, <<n>>)]
       ELSE IF parent_directory = p
            THEN [kind |-> "return", value |-> None]
       ELSE [kind |-> "recurse", value |-> parent_directory]

FindPathStep ==
    /\ fp = "running"
    /\ LET f == FindPathFrame(name, path)
       IN CASE f.kind = "return" ->
                 /\ fp' = "returned"
                 /\ fpResult' = f.value
                 /\ UNCHANGED <<path, hops>>
            [] f.kind = "recurse" ->
                 /\ path' = f.value
                 /\ hops' = hops + 1
                 /\ UNCHANGED <<fp, fpResult>>
            [] OTHER ->
                 /\ fp' = "raised"
                 /\ UNCHANGED <<path, fpResult, hops>>
    /\ UNCHANGED <<fs, cwd, name, startDir>>
    /\ UNCHANGED <<getVars, runVars, mainVars>>

\* find_path run to its end: the frame that returns or raises
RECURSIVE find_path(_, _)
find_path(n, p0) ==
    LET f == FindPathFrame(n, p0)
    IN IF f.kind = "recurse" THEN find_path(n, f.value) ELSE f

\* ---------------------------------------------------- get_value_at_index
\* Python values: an int, a sequence (list, tuple) or a mapping (dict, kept
\* in insertion order as a sequence of items with distinct keys).
IntV(n) == [kind |-> "int", n |-> n, elems |-> <<>>, items |-> <<>>]
SeqV(s) == [kind |-> "seq", n |-> 0, elems |-> s, items |-> <<>>]
MapV(m) == [kind |-> "map", n |-> 0, elems |-> <<>>, items |-> m]

IntKey(i) == [t |-> "int", n |-> i, s |-> ""]
StrKey(k) == [t |-> "str", n |-> 0, s |-> k]

NoValue == IntV(0)
Returned(v) == [exc |-> "", value |-> v]
Raised(e) == [exc |-> e, value |-> NoValue]

\* o[key]
GetItem(o, key) ==
    CASE o.kind = "seq" ->
           IF key.t # "int" THEN Raised("TypeError")
           ELSE LET n == Len(o.elems)
                    i == IF key.n < 0 THEN key.n + n ELSE key.n
                IN IF i < 0 \/ i >= n THEN Raised("IndexError")
                   ELSE Returned(o.elems[i + 1])
      [] o.kind = "map" ->
           LET hit == {j \in 1..Len(o.items) : o.items[j].k = key}
           IN IF hit = {} THEN Raised("KeyError")
              ELSE Returned(o.items[CHOOSE j \in hit : TRUE].v)
      [] OTHER -> Raised("TypeError")

Access(on, key) == [on |-> on, key |-> key]

\* get_value_at_index that looks under "result" before the direct access
get_value_at_index_ResultFirst(o, i) ==
    LET nested == GetItem(o, StrKey("result"))
        t1 == <<Access("obj", StrKey("result"))>>
    IN IF nested.exc = ""
       THEN LET inner == GetItem(nested.value, IntKey(i))
            IN [exc |-> inner.exc, value |-> inner.value,
                trace |-> Append(t1, Access("result", IntKey(i)))]
       ELSE LET direct == GetItem(o, IntKey(i))
            IN [exc |-> direct.exc, value |-> direct.value,
                trace |-> Append(t1, Access("obj", IntKey(i)))]

\* get_value_at_index falling back to the key "results" of its docstring
get_value_at_index_Results(o, i) ==
    LET direct == GetItem(o, IntKey(i))
        t1 == <<Access("obj", IntKey(i))>>
    IN IF direct.exc # "KeyError"
       THEN [exc |-> direct.exc, value |-> direct.value, trace |-> t1]
       ELSE LET nested == GetItem(o, StrKey("results"))
                t2 == Append(t1, Access("obj", StrKey("results")))
            IN IF nested.exc # ""
               THEN [exc |-> nested.exc, value |-> NoValue, trace |-> t2]
               ELSE LET inner == GetItem(nested.value, IntKey(i))
                    IN [exc |-> inner.exc, value |-> inner.value,
                        trace |-> Append(t2, Access("result", IntKey(i)))]

\* get_value_at_index returning None when the fallback key is missing too
get_value_at_index_Swallow(o, i) ==
    LET direct == GetItem(o, IntKey(i))
        t1 == <<Access("obj", IntKey(i))>>
    IN IF direct.exc # "KeyError"
       THEN [exc |-> direct.exc, value |-> direct.value, trace |-> t1]
       ELSE LET nested == GetItem(o, StrKey("result"))
                t2 == Append(t1, Access("obj", StrKey("result")))
            IN IF nested.exc # ""
               THEN [exc |-> "", value |-> NoValue, trace |-> t2]
               ELSE LET inner == GetItem(nested.value, IntKey(i))
                    IN [exc |-> inner.exc, value |-> inner.value,
                        trace |-> Append(t2, Access("result", IntKey(i)))]

\* get_value_at_index catching every lookup error, not KeyError alone
get_value_at_index_AnyLookupError(o, i) ==
    LET direct == GetItem(o, IntKey(i))
        t1 == <<Access("obj", IntKey(i))>>
    IN IF direct.exc \notin {"KeyError", "IndexError"}
       THEN [exc |-> direct.exc, value |-> direct.value, trace |-> t1]
       ELSE LET nested == GetItem(o, StrKey("result"))
                t2 == Append(t1, Access("obj", StrKey("result")))
            IN IF nested.exc # ""
               THEN [exc |-> nested.exc, value |-> NoValue, trace |-> t2]
               ELSE LET inner == GetItem(nested.value, IntKey(i))
                    IN [exc |-> inner.exc, value |-> inner.value,
                        trace |-> Append(t2, Access("result", IntKey(i)))]

\* the outcome of get_value_at_index(o, i) and the subscriptions it made
get_value_at_index(o, i) ==
    LET direct == GetItem(o, IntKey(i))
        t1 == <<Access("obj", IntKey(i))>>
    IN IF direct.exc # "KeyError"
       THEN [exc |-> direct.exc, value |-> direct.value, trace |-> t1]
       ELSE LET nested == GetItem(o, StrKey("result"))
                t2 == Append(t1, Access("obj", StrKey("result")))
            IN IF nested.exc # ""
               THEN [exc |-> nested.exc, value |-> NoValue, trace |-> t2]
               ELSE LET inner == GetItem(nested.value, IntKey(i))
                    IN [exc |-> inner.exc, value |-> inner.value,
                        trace |-> Append(t2, Access("result", IntKey(i)))]

GetValueAtIndex ==
    /\ gv = "ready"
    /\ res' = get_value_at_index(obj, index)
    /\ gv' = "done"
    /\ UNCHANGED <<obj, index>>
    /\ UNCHANGED <<findVars, runVars, mainVars>>

\* ------------------------------------------------- module-level start-up
\* add_comfyui_directory_to_sys_path(), called at line 82
AddComfyuiDirectoryToSysPath ==
    /\ pc = "add_comfyui_directory_to_sys_path"
    /\ LET found == find_path(COMFYUI, None)
           comfyui_path == found.value
       IN IF found.kind = "raise"
          THEN /\ pc' = "crashed"
               /\ raisedIn' = "add_comfyui_directory_to_sys_path"
               /\ UNCHANGED sys_path
          ELSE /\ pc' = "add_extra_model_paths"
               /\ UNCHANGED raisedIn
               /\ IF comfyui_path # None /\ isdir(comfyui_path)
                  THEN sys_path' = Append(sys_path, comfyui_path)
                  ELSE UNCHANGED sys_path
    /\ UNCHANGED extra
    /\ UNCHANGED <<findVars, getVars, mainVars>>

\* add_extra_model_paths(), called at line 83; "from main import ..." and
\* load_extra_path_config belong to the host application and may raise
AddExtraModelPaths ==
    /\ pc = "add_extra_model_paths"
    /\ \E imported \in BOOLEAN :
          IF ~imported
          THEN /\ pc' = "crashed"
               /\ raisedIn' = "add_extra_model_paths"
               /\ UNCHANGED extra
          ELSE LET found == find_path(EXTRA_MODEL_PATHS, None)
                   extra_model_paths == found.value
               IN IF found.kind = "raise"
                  THEN /\ pc' = "crashed"
                       /\ raisedIn' = "add_extra_model_paths"
                       /\ UNCHANGED extra
                  ELSE IF extra_model_paths # None
                  THEN \E loaded \in BOOLEAN :
                          /\ extra' = extra_model_paths
                          /\ pc' = IF loaded THEN "main" ELSE "crashed"
                          /\ raisedIn' = IF loaded THEN raisedIn
                                         ELSE "add_extra_model_paths"
                  ELSE /\ pc' = "main"
                       /\ UNCHANGED <<extra, raisedIn>>
    /\ UNCHANGED sys_path
    /\ UNCHANGED <<findVars, getVars, mainVars>>

\* ------------------------------------------------------------------ main
\* The node operations of main() in statement order, the last four being
\* the body of "for q in range(1)".
ProgramLoadersSwapped ==
    << "import_custom_nodes", "load_image", "op", "load_vae",
       "load_checkpoint", "encode", "seedint", "patch", "sample", "decode",
       "combine_video" >>

Program ==
    << "import_custom_nodes", "load_image", "op", "load_checkpoint",
       "load_vae", "encode", "seedint", "patch", "sample", "decode",
       "combine_video" >>

LoopStart == "patch"
LoopRange == 1

Stages == {Program[i] : i \in 1..Len(Program)}

Arg(src, idx) == [src |-> src, idx |-> idx]

\* the get_value_at_index calls in the argument list of each operation
Args(s) ==
    CASE s = "op" -> <<Arg("load_image", 0)>>
      [] s = "encode" ->
           << Arg("op", 0), Arg("op", 1), Arg("load_checkpoint", 1),
              Arg("load_image", 0), Arg("load_vae", 0) >>
      [] s = "patch" -> <<Arg("load_checkpoint", 0)>>
      [] s = "sample" ->
           << Arg("patch", 0), Arg("encode", 0), Arg("encode", 1),
              Arg("encode", 2) >>
      [] s = "decode" -> <<Arg("sample", 0), Arg("load_vae", 0)>>
      [] s = "combine_video" -> <<Arg("decode", 0)>>
      [] OTHER -> <<>>

NotRun == [kind |-> "none", n |-> 0, elems |-> <<>>, items |-> <<>>]

\* what a node operation of the host application may hand back
Triple == SeqV(<<IntV(10), IntV(20), IntV(10)>>)
NodeResults ==
    { Triple,
      MapV(<<[k |-> StrKey("ui"), v |-> IntV(10)],
             [k |-> StrKey("result"), v |-> Triple]>>),
      MapV(<<[k |-> StrKey("ui"), v |-> IntV(10)]>>) }

PosOf(s) == CHOOSE i \in 1..Len(Program) : Program[i] = s

\* the statement after s, with the loop variable
After(s, qq) ==
    IF PosOf(s) < Len(Program)
    THEN [pc |-> Program[PosOf(s) + 1], q |-> qq]
    ELSE IF qq + 1 < LoopRange
         THEN [pc |-> LoopStart, q |-> qq + 1]
         ELSE [pc |-> "done", q |-> qq]

\* One statement of main(): the arguments are evaluated in order, then the
\* operation is called; an exception of either ends the run.
Stage(s) ==
    /\ LET a == Args(s)
           got == [k \in 1..Len(a) |->
                     get_value_at_index(out[a[k].src], a[k].idx)]
       IN IF \E k \in 1..Len(a) : got[k].exc # ""
          THEN /\ pc' = "crashed"
               /\ raisedIn' = s
               /\ UNCHANGED <<q, out, invoked>>
          ELSE /\ invoked' = Append(invoked, s)
               /\ \/ /\ pc' = "crashed"
                     /\ raisedIn' = s
                     /\ UNCHANGED <<q, out>>
                  \/ \E r \in NodeResults :
                        /\ out' = [out EXCEPT ![s] = r]
                        /\ pc' = After(s, q).pc
                        /\ q' = After(s, q).q
                        /\ UNCHANGED raisedIn
    /\ UNCHANGED <<sys_path, extra>>
    /\ UNCHANGED <<findVars, getVars>>

ImportCustomNodes ==
    /\ pc = "import_custom_nodes"
    /\ Stage("import_custom_nodes")
LoadImage ==
    /\ pc = "load_image"
    /\ Stage("load_image")
NearestSDXLResolution ==
    /\ pc = "op"
    /\ Stage("op")
LoadCheckpoint ==
    /\ pc = "load_checkpoint"
    /\ Stage("load_checkpoint")
LoadVae ==
    /\ pc = "load_vae"
    /\ Stage("load_vae")
Encode ==
    /\ pc = "encode"
    /\ Stage("encode")
SeedInt ==
    /\ pc = "seedint"
    /\ Stage("seedint")
Patch ==
    /\ pc = "patch"
    /\ Stage("patch")
Sample ==
    /\ pc = "sample"
    /\ Stage("sample")
Decode ==
    /\ pc = "decode"
    /\ Stage("decode")
CombineVideo ==
    /\ pc = "combine_video"
    /\ Stage("combine_video")

\* ------------------------------------------------------- input domains
Scalars == {10, 20}
IntKeys == {0, 1}
StrKeys == {"result", "ui"}
Keys == {IntKey(i) : i \in IntKeys} \cup {StrKey(k) : k \in StrKeys}
Indices == (0 - 1)..MaxLen

RECURSIVE SeqsUpTo(_, _)
SeqsUpTo(S, n) ==
    IF n = 0 THEN {<<>>}
    ELSE LET R == SeqsUpTo(S, n - 1)
         IN R \cup {Append(r, x) : r \in {w \in R : Len(w) = n - 1}, x \in S}

Tuples == {SeqV(s) : s \in SeqsUpTo({IntV(n) : n \in Scalars}, MaxLen)}

\* the values held by a mapping: the scalars and, for every length, the
\* tuple (10, 20, 30, ...) of that length
Ramp(n) == SeqV([k \in 1..n |-> IntV(10 * k)])
LeafValues == {IntV(n) : n \in Scalars} \cup {Ramp(n) : n \in 0..MaxLen}

RECURSIVE ItemsUpTo(_)
ItemsUpTo(n) ==
    IF n = 0 THEN {<<>>}
    ELSE LET R == ItemsUpTo(n - 1)
         IN R \cup UNION {
               {Append(r, [k |-> key, v |-> v]) : v \in LeafValues}
               : r \in {w \in R : Len(w) = n - 1},
                 key \in Keys } 

DistinctKeys(m) == \A i, j \in 1..Len(m) : m[i].k = m[j].k => i = j
Mappings == {MapV(m) : m \in {x \in ItemsUpTo(MaxItems) : DistinctKeys(x)}}
StepResults == Tuples \cup Mappings

\* ----------------------------------------------------- specifications
\* sys.path as the interpreter sets it up: the script's directory and the
\* standard library
InitialSysPath == << <<SEP, "script">>, <<SEP, "usr", SEP, "lib">> >>

FindIdle ==
    /\ fs = {}
    /\ cwd = <<SEP>>
    /\ name = COMFYUI
    /\ path = None
    /\ fp = "idle"
    /\ fpResult = None
    /\ hops = 0
    /\ startDir = <<>>

GetIdle ==
    /\ obj = NoValue
    /\ index = 0
    /\ gv = "idle"
    /\ res = [exc |-> "", value |-> NoValue, trace |-> <<>>]

RunIdle ==
    /\ sys_path = InitialSysPath
    /\ extra = None
    /\ pc = "idle"
    /\ raisedIn = ""

MainIdle ==
    /\ q = 0
    /\ out = [s \in Stages |-> NotRun]
    /\ invoked = <<>>

\* find_path(name, path) on every tree, name and starting directory
InitFind ==
    /\ fs \in Trees
    /\ name \in Names
    /\ \E d \in Dirs(fs) :
          /\ startDir = d
          /\ \/ path = None /\ cwd = PathString(d)
             \/ path = PathString(d) /\ cwd = <<SEP>>
    /\ fp = "running"
    /\ fpResult = None
    /\ hops = 0
    /\ GetIdle /\ RunIdle /\ MainIdle

NextFind == FindPathStep

SpecFind == InitFind /\ [][NextFind]_vars

\* get_value_at_index(obj, index) on every step result and position
InitGet ==
    /\ obj \in StepResults
    /\ index \in Indices
    /\ gv = "ready"
    /\ res = [exc |-> "", value |-> NoValue, trace |-> <<>>]
    /\ FindIdle /\ RunIdle /\ MainIdle

NextGet == GetValueAtIndex

SpecGet == InitGet /\ [][NextGet]_vars

\* the statements run when the script is loaded, in every tree and from
\* every working directory
InitStartup ==
    /\ fs \in Trees
    /\ \E d \in Dirs(fs) : startDir = d /\ cwd = PathString(d)
    /\ name = COMFYUI
    /\ path = None
    /\ fp = "idle"
    /\ fpResult = None
    /\ hops = 0
    /\ sys_path = InitialSysPath
    /\ extra = None
    /\ pc = "add_comfyui_directory_to_sys_path"
    /\ raisedIn = ""
    /\ GetIdle /\ MainIdle

NextStartup == AddComfyuiDirectoryToSysPath \/ AddExtraModelPaths

SpecStartup == InitStartup /\ [][NextStartup]_vars

\* one run of main()
InitMain ==
    /\ FindIdle /\ GetIdle /\ MainIdle
    /\ sys_path = InitialSysPath
    /\ extra = None
    /\ pc = Program[1]
    /\ raisedIn = ""

NextMain ==
    \/ ImportCustomNodes
    \/ LoadImage
    \/ NearestSDXLResolution
    \/ LoadCheckpoint
    \/ LoadVae
    \/ Encode
    \/ SeedInt
    \/ Patch
    \/ Sample
    \/ Decode
    \/ CombineVideo

SpecMain == InitMain /\ [][NextMain]_vars

\* ------------------------------------------------------ find_path properties
\* The tree read directly: the start directory and its ancestors, those of
\* them that have an immediate child called n, and the nearest of these.
Ancestors(d) == {SubSeq(d, 1, k) : k \in 0..Len(d)}
Holders(n, d) == {a \in Ancestors(d) : \E e \in fs : e.path = Append(a, n)}
Nearest(n, d) ==
    CHOOSE a \in Holders(n, d) : \A b \in Holders(n, d) : Len(b) <= Len(a)
CurrentDir == Resolve(IF path = None THEN cwd ELSE path).at

\* C1: when the start directory or one of its ancestors has a child called
\* name, find_path does not fail and what it returns is the path of that
\* child in the nearest such directory D, reached after exactly as many
\* parent moves as D is levels above the start directory.
C1_NearestMatch ==
    Holders(name, startDir) # {} =>
        LET D == Nearest(name, startDir)
        IN /\ fp # "raised"
           /\ hops <= Len(startDir) - Len(D)
           /\ fp = "returned" =>
                 /\ fpResult = PathString(Append(D, name))
                 /\ hops = Len(startDir) - Len(D)

C1_Witness ==
    /\ fp = "returned"
    /\ Cardinality(Holders(name, startDir)) >= 2
    /\ hops >= 1
    /\ fpResult # None

\* C2: find_path never raises, and it returns None exactly when no
\* directory from the start directory up to the root has a child called
\* name; None is returned only by the call that listed the root.
C2_AbsentIsNone ==
    /\ fp # "raised"
    /\ fp = "returned" =>
          /\ (fpResult = None) <=> (Holders(name, startDir) = {})
          /\ fpResult = None => CurrentDir = <<>> /\ hops = Len(startDir)

C2_Witness ==
    /\ fp = "returned"
    /\ fpResult = None
    /\ hops >= 2
    /\ fs # {}

\* C3: find_path terminates: the search never fails, after h recursive calls the directory being
\* searched is the h-th ancestor of the start directory (every call moves
\* to a strict ancestor), and the number of calls never exceeds the depth
\* of the start directory below the root.
C3_Terminates ==
    /\ fp # "raised"
    /\ hops <= Len(startDir)
    /\ CurrentDir = SubSeq(startDir, 1, Len(startDir) - hops)

C3_Witness ==
    /\ fp = "returned"
    /\ hops = Len(startDir)
    /\ hops >= 2

\* --------------------------------------------- get_value_at_index properties
\* The argument read directly: the keys of a mapping, the value stored
\* under a key, and the element of a sequence at a Python position.
HasKey(o, key) == \E j \in 1..Len(o.items) : o.items[j].k = key
ValueOf(o, key) == o.items[CHOOSE j \in 1..Len(o.items) : o.items[j].k = key].v
InBounds(o, i) == 0 - Len(o.elems) <= i /\ i < Len(o.elems)
ElementAt(o, i) == o.elems[IF i < 0 THEN Len(o.elems) + i + 1 ELSE i + 1]
LooksUnderResult == \E j \in 1..Len(res.trace) : res.trace[j].key = StrKey("result")

C7_OutOfBoundsRaises ==
    gv = "done" =>
        /\ obj.kind = "seq" /\ ~InBounds(obj, index) =>
              /\ res.exc = "IndexError"
              /\ res.trace = <<Access("obj", IntKey(index))>>
        /\ LooksUnderResult =>
              obj.kind = "map" /\ ~HasKey(obj, IntKey(index))

C7_Witness ==
    /\ gv = "done"
    /\ obj.kind = "seq"
    /\ Len(obj.elems) >= 1
    /\ index >= Len(obj.elems)
    /\ res.exc = "IndexError"

\* C8: when obj is a mapping, the call returns the value of the index-th
\* key of the mapping, the key at position index in the mapping's key order.
C8_IndexthKey ==
    ( /\ gv = "done"
      /\ obj.kind = "map"
      /\ 0 <= index
      /\ index < Len(obj.items) )
    => /\ res.exc = ""
       /\ res.value = obj.items[index + 1].v

\* ------------------------------------------------------------ main properties
NamedOrder ==
    << "load_image", "op", "load_checkpoint", "load_vae", "encode", "sample",
       "decode", "combine_video" >>
IsNamed(s) == \E i \in 1..Len(NamedOrder) : NamedOrder[i] = s
NamedInvoked == SelectSeq(invoked, IsNamed)

\* C9: the operations invoked so far begin with the custom-node
\* initialisation, the image load, resolution adjustment, checkpoint load,
\* VAE load, conditioning encode, sampling, decode and video combine among
\* them appear in that order, none is invoked twice, and every operation
\* whose result an invoked operation reads was invoked before it and has
\* handed back its result.
C9_FixedOrder ==
    /\ invoked # <<>> => invoked[1] = "import_custom_nodes"
    /\ Len(NamedInvoked) <= Len(NamedOrder)
    /\ NamedInvoked = SubSeq(NamedOrder, 1, Len(NamedInvoked))
    /\ \A i, j \in 1..Len(invoked) : invoked[i] = invoked[j] => i = j
    /\ \A k \in 1..Len(invoked) :
          \A a \in 1..Len(Args(invoked[k])) :
             /\ \E j \in 1..(k - 1) : invoked[j] = Args(invoked[k])[a].src
             /\ out[Args(invoked[k])[a].src] # NotRun

C9_Witness ==
    /\ pc = "done"
    /\ NamedInvoked = NamedOrder
    /\ \A s \in Stages : out[s] # NotRun

\* --------------------------------------------------------- start-up property
ComfyHolders == Holders(COMFYUI, startDir)
ComfyEntry == Append(Nearest(COMFYUI, startDir), COMFYUI)
ComfyIsDir == \E e \in fs : e.path = ComfyEntry /\ e.kind = "dir"

\* C10: add_comfyui_directory_to_sys_path raises nothing; before it has run
\* sys.path is as the interpreter set it up, and afterwards it is that list
\* with the path of the nearest entry called ComfyUI appended when there is
\* such an entry and it is a directory, and that list unchanged when there is
\* none or the nearest one is not a directory, whatever farther ancestors hold.
C10_SysPath ==
    /\ raisedIn # "add_comfyui_directory_to_sys_path"
    /\ pc = "add_comfyui_directory_to_sys_path" => sys_path = InitialSysPath
    /\ pc # "add_comfyui_directory_to_sys_path" =>
          sys_path = IF ComfyHolders # {} /\ ComfyIsDir
                     THEN Append(InitialSysPath, PathString(ComfyEntry))
                     ELSE InitialSysPath

C10_Witness ==
    /\ pc = "add_extra_model_paths"
    /\ ComfyHolders # {}
    /\ ~ComfyIsDir
    /\ \E a \in ComfyHolders :
          \E e \in fs : e.path = Append(a, COMFYUI) /\ e.kind = "dir"
    /\ sys_path = InitialSysPath

====
